---- MODULE Spec2Model ----
(***************************************************************************)
(* Order workflow of the food-delivery backend: createOrder (price         *)
(* resolution, header insert, line-items insert), the customer reads, the  *)
(* customer cancel, the admin status update and the admin menu update, all *)
(* running as independent requests against one shared database.            *)
(*                                                                         *)
(* Every `await supabase...` of a handler is one database call; a handler  *)
(* is cut into one action per database call, so requests interleave        *)
(* exactly where the event loop lets them.  Money is counted in whole      *)
(* units of the smallest currency step: the columns are DECIMAL(10,2), so  *)
(* a stored amount is an integer number of cents.                          *)
(***************************************************************************)
EXTENDS Integers, Sequences, FiniteSets, TLC

\* ------------------------------------------------------------------ bounds
\* A request body carries at most MaxCart items.
MaxCart == 2

\* ------------------------------------------------------------- input sets
\* A JavaScript object is a record; a property that is undefined is a field
\* the record does not have.  A NULL column is likewise a field the row lacks.
Has(r, f) == f \in DOMAIN r

Procs == {"r1", "r2"}
Admins == {"a1", "a2"}
Users == {"u1", "u2"}
StoreIds == {"s1", "s2"}
MenuIds == {"m1", "m2"}
OrderIds == {"o1", "o2"}
Prices == {1, 2}
Quantities == {0, 2}
BodyPrices == {1}

\* One element of req.body.items; `price` is a property the client may send.
Lines ==
  [menu_item_id : MenuIds, quantity : Quantities]
  \cup [menu_item_id : MenuIds, quantity : Quantities, price : BodyPrices]

RECURSIVE SeqsUpTo(_, _)
SeqsUpTo(S, n) ==
  IF n = 0 THEN {<<>>}
  ELSE LET shorter == SeqsUpTo(S, n - 1)
       IN shorter \cup {Append(s, x) : s \in {t \in shorter : Len(t) = n - 1}, x \in S}

Carts == SeqsUpTo(Lines, MaxCart)

PlainLine == [menu_item_id |-> "m1", quantity |-> 1, price |-> 1]

PlainBody == [store_id |-> "s1", items |-> <<PlainLine>>, delivery_address |-> "addr"]

\* Request bodies: every cart with the other properties well formed, and one
\* plain cart with each of the other properties missing or malformed in turn.
Bodies ==
  {[store_id |-> "s1", items |-> c, delivery_address |-> "addr"] : c \in Carts}
  \cup {[store_id |-> "s1", delivery_address |-> "addr"],
        [items |-> <<PlainLine>>, delivery_address |-> "addr"],
        [store_id |-> "not-a-uuid", items |-> <<PlainLine>>, delivery_address |-> "addr"],
        [store_id |-> "s1", items |-> <<PlainLine>>],
        [store_id |-> "s1", items |-> <<PlainLine>>, delivery_address |-> ""],
        [store_id |-> "s1", items |-> <<PlainLine>>, delivery_address |-> "addr",
         delivery_latitude |-> 91],
        [store_id |-> "s1", items |-> <<PlainLine>>, delivery_address |-> "addr",
         delivery_longitude |-> 181],
        [store_id |-> "s1", items |-> <<PlainLine>>, delivery_address |-> "addr",
         notes |-> "ring twice"]}

VARIABLES
  menu_items,   \* table menu_items: id -> row, for the ids that have a row
  orders,       \* table orders: id -> row, for the ids that have a row
  order_items,  \* table order_items: sequence of rows in insertion order
  proc,         \* the requests in flight: the handler's locals and position
  res,          \* the response the last step sent, if it sent one
  hist,         \* history: per order, what its createOrder call resolved;
                \* per phone, the code send-otp last issued and its use
  tokenBlacklist,       \* auth.routes.js: const tokenBlacklist = new Set()
  adminTokenBlacklist,  \* admin.auth.routes.js: const adminTokenBlacklist = new Set()
  req,          \* the request the last step dispatched, if it dispatched one
  now,          \* Date.now() / CURRENT_TIMESTAMP, in minutes
  otpStore,     \* auth.routes.js: global.otpStore, a Map phone -> {otp, expiresAt}
  users         \* table users: phone -> id, for the phones that have a row

vars == <<menu_items, orders, order_items, proc, res, hist,
          tokenBlacklist, adminTokenBlacklist, req, now, otpStore, users>>

\* What a step of a handler past its middleware leaves alone: the blacklists,
\* the clock, the OTP store and the users; and it dispatches no request.
NoRequest == [route |-> "none"]

Continues ==
  req' = NoRequest /\ UNCHANGED <<tokenBlacklist, adminTokenBlacklist, now, otpStore, users>>

Idle == [pc |-> "idle"]

\* The customers of the order routes, registered under their phones.
RegisteredUsers == [phone \in {"p1", "p2"} |-> IF phone = "p1" THEN "u1" ELSE "u2"]

\* -------------------------------------------------------------- helpers
RECURSIVE SumSeq(_)
SumSeq(s) == IF s = <<>> THEN 0 ELSE Head(s) + SumSeq(Tail(s))

Respond(op, status, body) == [op |-> op, status |-> status, body |-> body]

\* A step that ends at an `await` sends nothing.
NoResponse == [op |-> "none"]

\* error.message of a failed database call travels in the 500 body.
ErrorBody(message) == [error |-> message]

\* ------------------------------------------------- express-validator chain
\* isUUID(): the ids of rows, and well-formed ids that no row has.
IsUUID(v) == v \in StoreIds \cup MenuIds \cup OrderIds \cup {"s9", "o9"}

ValidLine(l) == IsUUID(l.menu_item_id) /\ l.quantity \in Nat /\ l.quantity >= 1

\* The chain of validators declared on POST /api/orders.
ValidShape(b) ==
  /\ Has(b, "store_id") /\ IsUUID(b.store_id)
  /\ Has(b, "items") /\ Len(b.items) > 0
  /\ \A k \in 1..Len(b.items) : ValidLine(b.items[k])
  /\ Has(b, "delivery_address") /\ b.delivery_address # ""
  /\ Has(b, "delivery_latitude") => (b.delivery_latitude >= -90 /\ b.delivery_latitude <= 90)
  /\ Has(b, "delivery_longitude") => (b.delivery_longitude >= -180 /\ b.delivery_longitude <= 180)
  /\ Has(b, "notes") => b.notes \in STRING

\* ------------------------------------------------------- database schema
\* CREATE TABLE orders (the later of the two definitions in schemas.sql): the
\* column types and constraints an insert must meet.
OrderRowAccepted(row) ==
  /\ Has(row, "user_id") /\ row.user_id \in Users
  /\ Has(row, "store_id") /\ row.store_id \in StoreIds
  /\ Has(row, "total_amount")
  /\ Has(row, "delivery_address")
  /\ Has(row, "delivery_latitude") => (row.delivery_latitude > -100 /\ row.delivery_latitude < 100)
  /\ Has(row, "delivery_longitude") => (row.delivery_longitude > -1000 /\ row.delivery_longitude < 1000)

\* CREATE TABLE order_items: the constraints an inserted row must meet.
OrderItemRowAccepted(row) ==
  /\ row.order_id \in DOMAIN orders
  /\ row.menu_item_id \in DOMAIN menu_items
  /\ Has(row, "quantity") /\ row.quantity \in Int
  /\ Has(row, "price")

\* The rows of order_items that belong to one order, in insertion order.
ItemsOf(id) == SelectSeq(order_items, LAMBDA r : r.order_id = id)

\* ------------------------------------------------------------------ Init
Init ==
  /\ menu_items \in [{"m1"} -> [price : Prices]]
  /\ orders = <<>>
  /\ order_items = <<>>
  /\ proc = [p \in Procs |-> Idle]
  /\ res = NoResponse
  /\ hist = <<>>
  /\ tokenBlacklist = {} /\ adminTokenBlacklist = {} /\ req = NoRequest
  /\ now = 0 /\ otpStore = <<>> /\ users = RegisteredUsers

\* ----------------------------------------------- POST /api/orders (create)
\* A slip the loop could make: the quantity left out of the line amount.
LineAmountWithoutQuantity(price, quantity) == price

\* total_amount += menuItem.price * item.quantity
LineAmount(price, quantity) == price * quantity

\* The handler up to its first database call: the validators have run, their
\* result is never read; the body is destructured and the loop entered.
CreateOrderBegin(p, u, b) ==
  /\ proc[p].pc = "idle"
  /\ IF ~Has(b, "items")
     THEN /\ res' = Respond("createOrder", 500, ErrorBody("items is not iterable"))
          /\ UNCHANGED proc
     ELSE /\ proc' = [proc EXCEPT ![p] =
                 [pc |-> IF Len(b.items) = 0 THEN "insertOrder" ELSE "lookup",
                  user |-> u, body |-> b, i |-> 1, total_amount |-> 0,
                  resolved |-> <<>>]]
          /\ res' = NoResponse
  /\ UNCHANGED <<menu_items, orders, order_items, hist>>

\* A slip the loop could make: total_amount declared outside the handler, so
\* that what another request in flight has accumulated is counted in.
CreateOrderLookupSharedTotal(p, dbFails) ==
  /\ proc[p].pc = "lookup"
  /\ LET l == proc[p]
         item == l.body.items[l.i]
         menuItem == menu_items[item.menu_item_id]
         other == CHOOSE q \in Procs : q # p
         shared == IF Has(proc[other], "total_amount") THEN proc[other].total_amount ELSE 0
     IN IF dbFails \/ item.menu_item_id \notin DOMAIN menu_items
        THEN /\ res' = Respond("createOrder", 500,
                         ErrorBody(IF dbFails THEN "fetch failed" ELSE "PGRST116"))
             /\ proc' = [proc EXCEPT ![p] = Idle]
        ELSE /\ proc' = [proc EXCEPT ![p] =
                    [l EXCEPT !.total_amount = @ + shared + LineAmount(menuItem.price, item.quantity),
                              !.resolved = Append(@, [menu_item_id |-> item.menu_item_id,
                                                      quantity |-> item.quantity,
                                                      price |-> menuItem.price]),
                              !.i = @ + 1,
                              !.pc = IF l.i = Len(l.body.items) THEN "insertOrder" ELSE "lookup"]]
             /\ res' = NoResponse
  /\ UNCHANGED <<menu_items, orders, order_items, hist>>

\* One pass of the price loop: select price from menu_items where id = ... single().
CreateOrderLookup(p, dbFails) ==
  /\ proc[p].pc = "lookup"
  /\ LET l == proc[p]
         item == l.body.items[l.i]
         menuItem == menu_items[item.menu_item_id]
     IN IF dbFails \/ item.menu_item_id \notin DOMAIN menu_items
        THEN /\ res' = Respond("createOrder", 500,
                         ErrorBody(IF dbFails THEN "fetch failed" ELSE "PGRST116"))
             /\ proc' = [proc EXCEPT ![p] = Idle]
        ELSE /\ proc' = [proc EXCEPT ![p] =
                    [l EXCEPT !.total_amount = @ + LineAmount(menuItem.price, item.quantity),
                              !.resolved = Append(@, [menu_item_id |-> item.menu_item_id,
                                                      quantity |-> item.quantity,
                                                      price |-> menuItem.price]),
                              !.i = @ + 1,
                              !.pc = IF l.i = Len(l.body.items) THEN "insertOrder" ELSE "lookup"]]
             /\ res' = NoResponse
  /\ UNCHANGED <<menu_items, orders, order_items, hist>>

\* A slip the insert could make: the request body spread into the row, so
\* that a user_id property of the body replaces the caller's.
OrderRowFromBody(l) ==
  LET fromBody == DOMAIN l.body \cap {"store_id", "delivery_address", "delivery_latitude",
                                     "delivery_longitude", "notes"}
  IN [f \in {"user_id", "total_amount", "status"} \cup fromBody |->
        CASE f = "user_id" -> IF Has(l.body, "user_id") THEN l.body.user_id ELSE l.user
          [] f = "total_amount" -> l.total_amount
          [] f = "status" -> "pending"
          [] OTHER -> l.body[f]]

\* A slip the insert could make: the header written as already confirmed.
OrderRowConfirmed(l) ==
  LET fromBody == DOMAIN l.body \cap {"store_id", "delivery_address", "delivery_latitude",
                                     "delivery_longitude", "notes"}
  IN [f \in {"user_id", "total_amount", "status"} \cup fromBody |->
        CASE f = "user_id" -> l.user
          [] f = "total_amount" -> l.total_amount
          [] f = "status" -> "confirmed"
          [] OTHER -> l.body[f]]

\* The header row createOrder inserts.
OrderRow(l) ==
  LET fromBody == DOMAIN l.body \cap {"store_id", "delivery_address", "delivery_latitude",
                                     "delivery_longitude", "notes"}
  IN [f \in {"user_id", "total_amount", "status"} \cup fromBody |->
        CASE f = "user_id" -> l.user
          [] f = "total_amount" -> l.total_amount
          [] f = "status" -> "pending"
          [] OTHER -> l.body[f]]

\* insert into orders ... select().single(); `id` is the uuid the table
\* generates.  single() yields the inserted row or an error, so the branch
\* for an insert that returns no order object is never taken.  The row the
\* insert returns stays in the local `order` (its id in `order`, the rest in
\* `row`) until the response.
CreateOrderInsert(p, id, dbFails) ==
  /\ proc[p].pc = "insertOrder"
  /\ id \notin DOMAIN orders
  /\ LET l == proc[p]
         row == OrderRow(l)
     IN IF dbFails \/ ~OrderRowAccepted(row)
        THEN /\ res' = Respond("createOrder", 500,
                         ErrorBody(IF dbFails THEN "fetch failed" ELSE "orders constraint"))
             /\ proc' = [proc EXCEPT ![p] = Idle]
             /\ UNCHANGED <<orders, hist>>
        ELSE /\ orders' = (id :> row) @@ orders
             /\ hist' = (id :> [resolved |-> l.resolved, valid |-> ValidShape(l.body),
                                outcome |-> "pending"]) @@ hist
             /\ proc' = [proc EXCEPT ![p] =
                    [pc |-> "insertItems", items |-> l.body.items, order |-> id, row |-> row]]
             /\ res' = NoResponse
  /\ UNCHANGED <<menu_items, order_items>>

\* const orderItems = items.map(item => ({ order_id, menu_item_id, quantity, price: item.price }))
OrderItemRows(order_id, items) ==
  [k \in 1..Len(items) |->
     [f \in {"order_id"} \cup (DOMAIN items[k] \cap {"menu_item_id", "quantity", "price"}) |->
        IF f = "order_id" THEN order_id ELSE items[k][f]]]

\* What the catch block of createOrder leaves of the orders table when the
\* line-items insert has failed after the header insert: it only responds.
OrdersAfterItemsFailure(order_id) == orders

\* insert into order_items (one statement for all rows), then the response.
CreateOrderInsertItems(p, dbFails) ==
  /\ proc[p].pc = "insertItems"
  /\ LET l == proc[p]
         orderItems == OrderItemRows(l.order, l.items)
     IN IF dbFails \/ \E k \in 1..Len(orderItems) : ~OrderItemRowAccepted(orderItems[k])
        THEN /\ res' = Respond("createOrder", 500,
                         ErrorBody(IF dbFails THEN "fetch failed" ELSE "order_items constraint"))
             /\ orders' = OrdersAfterItemsFailure(l.order)
             /\ hist' = [hist EXCEPT ![l.order].outcome = "failed"]
             /\ UNCHANGED order_items
        ELSE /\ order_items' = order_items \o orderItems
             /\ res' = Respond("createOrder", 201, [id |-> l.order, order |-> l.row])
             /\ hist' = [hist EXCEPT ![l.order].outcome = "created"]
             /\ UNCHANGED orders
  /\ proc' = [proc EXCEPT ![p] = Idle]
  /\ UNCHANGED menu_items

\* ------------------------------------------ PUT /admin/api/menu/:menu_id
\* Request bodies of the menu update: a new price, or no price at all.
MenuBodies == [price : Prices] \cup {[name |-> "n"]}

\* A slip the update could make: line items priced by a live join, so that a
\* new catalog price reaches the rows of existing orders.
UpdateMenuItemRepricing(menu_id, body, dbFails) ==
  /\ IF dbFails \/ menu_id \notin DOMAIN menu_items
     THEN /\ res' = Respond("updateMenuItem", 500,
                      ErrorBody(IF dbFails THEN "fetch failed" ELSE "PGRST116"))
          /\ UNCHANGED <<menu_items, order_items>>
     ELSE /\ menu_items' = [menu_items EXCEPT ![menu_id] =
                 [f \in DOMAIN @ |-> IF Has(body, f) THEN body[f] ELSE @[f]]]
          /\ order_items' = [k \in 1..Len(order_items) |->
                 IF order_items[k].menu_item_id = menu_id
                 THEN [order_items[k] EXCEPT !.price = menu_items'[menu_id].price]
                 ELSE order_items[k]]
          /\ res' = Respond("updateMenuItem", 200, [id |-> menu_id, row |-> menu_items'[menu_id]])
  /\ UNCHANGED <<orders, proc, hist>>

\* delete from menu_items where id = menu_id; order_items.menu_item_id
\* REFERENCES menu_items(id) ON DELETE RESTRICT.  The handler answers 204
\* whether or not a row was deleted.
DeleteMenuItem(menu_id, dbFails) ==
  /\ IF dbFails \/ \E k \in 1..Len(order_items) : order_items[k].menu_item_id = menu_id
     THEN /\ res' = Respond("deleteMenuItem", 500,
                      ErrorBody(IF dbFails THEN "fetch failed" ELSE "order_items constraint"))
          /\ UNCHANGED menu_items
     ELSE /\ menu_items' = [m \in DOMAIN menu_items \ {menu_id} |-> menu_items[m]]
          /\ res' = Respond("deleteMenuItem", 204, [id |-> menu_id])
  /\ UNCHANGED <<orders, order_items, proc, hist>>

\* update menu_items set <the fields given> where id = menu_id
UpdateMenuItem(menu_id, body, dbFails) ==
  /\ IF dbFails \/ menu_id \notin DOMAIN menu_items
     THEN /\ res' = Respond("updateMenuItem", 500,
                      ErrorBody(IF dbFails THEN "fetch failed" ELSE "PGRST116"))
          /\ UNCHANGED menu_items
     ELSE /\ menu_items' = [menu_items EXCEPT ![menu_id] =
                 [f \in DOMAIN @ |-> IF Has(body, f) THEN body[f] ELSE @[f]]]
          /\ res' = Respond("updateMenuItem", 200, [id |-> menu_id, row |-> menu_items'[menu_id]])
  /\ UNCHANGED <<orders, order_items, proc, hist>>

\* ------------------------------------- GET /api/orders, GET /api/orders/:id
\* One order as the reads return it: *, order_items(quantity, price, ...).
Enriched(id) == [id |-> id, order |-> orders[id], order_items |-> ItemsOf(id)]

\* select ... from orders where user_id = req.user.id
ListOrders(u, dbFails) ==
  /\ res' = IF dbFails THEN Respond("listOrders", 500, ErrorBody("fetch failed"))
            ELSE Respond("listOrders", 200,
                         [data |-> {Enriched(id) : id \in {k \in DOMAIN orders : orders[k].user_id = u}}])
  /\ UNCHANGED <<menu_items, orders, order_items, proc, hist>>

\* A slip the select could make: the order looked up by its id alone.
GetOrderAnyOwner(u, id, dbFails) ==
  /\ res' = IF dbFails \/ id \notin DOMAIN orders
            THEN Respond("getOrder", 500, ErrorBody(IF dbFails THEN "fetch failed" ELSE "PGRST116"))
            ELSE Respond("getOrder", 200, [data |-> {Enriched(id)}])
  /\ UNCHANGED <<menu_items, orders, order_items, proc, hist>>

\* select ... from orders where id = :id and user_id = req.user.id, single()
GetOrder(u, id, dbFails) ==
  /\ res' = IF dbFails \/ id \notin DOMAIN orders \/ orders[id].user_id # u
            THEN Respond("getOrder", 500, ErrorBody(IF dbFails THEN "fetch failed" ELSE "PGRST116"))
            ELSE Respond("getOrder", 200, [data |-> {Enriched(id)}])
  /\ UNCHANGED <<menu_items, orders, order_items, proc, hist>>

\* -------------------------------------- PUT /admin/api/orders/:id/status
validStatuses == {"pending", "confirmed", "preparing", "ready", "delivered", "cancelled"}

\* A slip the update could make: the row written back without its amount.
AdvanceOrderStatusResettingTotal(id, status, dbFails) ==
  /\ IF status \notin validStatuses
     THEN /\ res' = Respond("advanceOrderStatus", 400, ErrorBody("Invalid status value"))
          /\ UNCHANGED orders
     ELSE IF dbFails \/ id \notin DOMAIN orders
     THEN /\ res' = Respond("advanceOrderStatus", 500, ErrorBody("Internal server error"))
          /\ UNCHANGED orders
     ELSE /\ orders' = [orders EXCEPT ![id].status = status, ![id].total_amount = 0]
          /\ res' = Respond("advanceOrderStatus", 200, [id |-> id, order |-> orders'[id]])
  /\ UNCHANGED <<menu_items, order_items, proc, hist>>

\* update orders set status = :status where id = :id, select().single()
AdvanceOrderStatus(id, status, dbFails) ==
  /\ IF status \notin validStatuses
     THEN /\ res' = Respond("advanceOrderStatus", 400, ErrorBody("Invalid status value"))
          /\ UNCHANGED orders
     ELSE IF dbFails \/ id \notin DOMAIN orders
     THEN /\ res' = Respond("advanceOrderStatus", 500, ErrorBody("Internal server error"))
          /\ UNCHANGED orders
     ELSE /\ orders' = [orders EXCEPT ![id].status = status]
          /\ res' = Respond("advanceOrderStatus", 200, [id |-> id, order |-> orders'[id]])
  /\ UNCHANGED <<menu_items, order_items, proc, hist>>

\* The same handler cut at its await, for requests that overlap: the part up
\* to the database call, with the status taken from the body and validated.
AdvanceOrderBegin(a, id, status) ==
  /\ proc[a].pc = "idle"
  /\ IF status \notin validStatuses
     THEN /\ res' = Respond("advanceOrderStatus", 400, ErrorBody("Invalid status value"))
          /\ proc' = [proc EXCEPT ![a] =
                 [pc |-> "answered", id |-> id, status |-> status, res |-> res',
                  storageFailed |-> FALSE, overlapped |-> {}]]
     ELSE /\ res' = NoResponse
          /\ proc' = [proc EXCEPT ![a] = [pc |-> "advanceUpdate", id |-> id, status |-> status]]
  /\ UNCHANGED <<menu_items, orders, order_items, hist>>

\* The database call and the response.  The slot keeps the finished call:
\* its answer, whether the database call failed, and (history) the admin
\* calls on the same order that were waiting for the database at this write.
AdvanceOrderUpdate(a, dbFails) ==
  /\ proc[a].pc = "advanceUpdate"
  /\ LET l == proc[a]
     IN /\ IF dbFails \/ l.id \notin DOMAIN orders
           THEN /\ res' = Respond("advanceOrderStatus", 500, ErrorBody("Internal server error"))
                /\ UNCHANGED orders
           ELSE /\ orders' = [orders EXCEPT ![l.id].status = l.status]
                /\ res' = Respond("advanceOrderStatus", 200, [id |-> l.id, order |-> orders'[l.id]])
        /\ proc' = [proc EXCEPT ![a] =
               [pc |-> "answered", id |-> l.id, status |-> l.status, res |-> res',
                storageFailed |-> dbFails,
                overlapped |-> {b \in DOMAIN proc \ {a} :
                                  proc[b].pc = "advanceUpdate" /\ proc[b].id = l.id}]]
  /\ UNCHANGED <<menu_items, order_items, hist>>

\* ------------------------------------------- PUT /api/orders/:id/cancel
CancelOrderBegin(p, u, id) ==
  /\ proc[p].pc = "idle"
  /\ proc' = [proc EXCEPT ![p] = [pc |-> "cancelSelect", user |-> u, id |-> id]]
  /\ res' = NoResponse
  /\ UNCHANGED <<menu_items, orders, order_items, hist>>

\* A slip the select could make: the order looked up by its id alone.
CancelOrderSelectAnyOwner(p, dbFails) ==
  /\ proc[p].pc = "cancelSelect"
  /\ LET l == proc[p]
     IN IF dbFails \/ l.id \notin DOMAIN orders
        THEN /\ res' = Respond("cancelOrder", 500,
                         ErrorBody(IF dbFails THEN "fetch failed" ELSE "PGRST116"))
             /\ proc' = [proc EXCEPT ![p] = Idle]
        ELSE IF orders[l.id].status \notin {"pending", "confirmed"}
        THEN /\ res' = Respond("cancelOrder", 400, ErrorBody("Order cannot be cancelled"))
             /\ proc' = [proc EXCEPT ![p] = Idle]
        ELSE /\ res' = NoResponse
             /\ proc' = [proc EXCEPT ![p] = [l EXCEPT !.pc = "cancelUpdate"]]
  /\ UNCHANGED <<menu_items, orders, order_items, hist>>

\* A slip the status check could make: an order being prepared still passes.
CancelOrderSelectWhilePreparing(p, dbFails) ==
  /\ proc[p].pc = "cancelSelect"
  /\ LET l == proc[p]
     IN IF dbFails \/ l.id \notin DOMAIN orders \/ orders[l.id].user_id # l.user
        THEN /\ res' = Respond("cancelOrder", 500,
                         ErrorBody(IF dbFails THEN "fetch failed" ELSE "PGRST116"))
             /\ proc' = [proc EXCEPT ![p] = Idle]
        ELSE IF orders[l.id].status \notin {"pending", "confirmed", "preparing"}
        THEN /\ res' = Respond("cancelOrder", 400, ErrorBody("Order cannot be cancelled"))
             /\ proc' = [proc EXCEPT ![p] = Idle]
        ELSE /\ res' = NoResponse
             /\ proc' = [proc EXCEPT ![p] = [l EXCEPT !.pc = "cancelUpdate"]]
  /\ UNCHANGED <<menu_items, orders, order_items, hist>>

\* select status from orders where id = :id and user_id = req.user.id, single()
CancelOrderSelect(p, dbFails) ==
  /\ proc[p].pc = "cancelSelect"
  /\ LET l == proc[p]
     IN IF dbFails \/ l.id \notin DOMAIN orders \/ orders[l.id].user_id # l.user
        THEN /\ res' = Respond("cancelOrder", 500,
                         ErrorBody(IF dbFails THEN "fetch failed" ELSE "PGRST116"))
             /\ proc' = [proc EXCEPT ![p] = Idle]
        ELSE IF orders[l.id].status \notin {"pending", "confirmed"}
        THEN /\ res' = Respond("cancelOrder", 400, ErrorBody("Order cannot be cancelled"))
             /\ proc' = [proc EXCEPT ![p] = Idle]
        ELSE /\ res' = NoResponse
             /\ proc' = [proc EXCEPT ![p] = [l EXCEPT !.pc = "cancelUpdate"]]
  /\ UNCHANGED <<menu_items, orders, order_items, hist>>

\* A slip the cancel could make: the line items of the order removed with it.
CancelOrderUpdateDeletingItems(p, dbFails) ==
  /\ proc[p].pc = "cancelUpdate"
  /\ LET l == proc[p]
     IN IF dbFails \/ l.id \notin DOMAIN orders
        THEN /\ res' = Respond("cancelOrder", 500, ErrorBody("fetch failed"))
             /\ UNCHANGED <<orders, order_items>>
        ELSE /\ orders' = [orders EXCEPT ![l.id].status = "cancelled"]
             /\ order_items' = SelectSeq(order_items, LAMBDA row : row.order_id # l.id)
             /\ res' = Respond("cancelOrder", 200, [id |-> l.id, order |-> orders'[l.id]])
  /\ proc' = [proc EXCEPT ![p] = Idle]
  /\ UNCHANGED <<menu_items, hist>>

\* update orders set status = 'cancelled' where id = :id, select().single()
CancelOrderUpdate(p, dbFails) ==
  /\ proc[p].pc = "cancelUpdate"
  /\ LET l == proc[p]
     IN IF dbFails \/ l.id \notin DOMAIN orders
        THEN /\ res' = Respond("cancelOrder", 500, ErrorBody("fetch failed"))
             /\ UNCHANGED orders
        ELSE /\ orders' = [orders EXCEPT ![l.id].status = "cancelled"]
             /\ res' = Respond("cancelOrder", 200, [id |-> l.id, order |-> orders'[l.id]])
  /\ proc' = [proc EXCEPT ![p] = Idle]
  /\ UNCHANGED <<menu_items, order_items, hist>>

\* ------------------------------------------------- tokens and middleware
\* A JWT is its payload and whether its HS256 signature was made with
\* JWT_SECRET.  generateToken signs {id, phone, iat, exp} for a user, the
\* admin login signs {email, role, iat}; anyone can write a token with any
\* payload and another signature.  Expiry is not modelled.
UserToken(u) == [payload |-> [id |-> u], signed |-> TRUE]

AdminToken == [payload |-> [email |-> "admin@testing.com", role |-> "admin"], signed |-> TRUE]

ForgedToken == [payload |-> [id |-> "u2", role |-> "admin"], signed |-> FALSE]

\* The tokens requests carry: u1 is logged in, u2 is not.
Tokens == {UserToken("u1"), AdminToken, ForgedToken}

\* req.headers: `Bearer <token>`, `Bearer` alone, or no authorization header.
Headers ==
  {[authorization |-> [scheme |-> "Bearer", token |-> t]] : t \in Tokens}
  \cup {[authorization |-> [scheme |-> "Bearer"]], [host |-> "jetak"]}

\* jwt.verify(token, process.env.JWT_SECRET, callback): err unless the
\* signature is good.
JwtVerify(token) == token.signed

\* authMiddleware: a rejection (status, error) or req.user = decoded.
AuthMiddleware(headers) ==
  IF ~Has(headers, "authorization")
  THEN [status |-> 401, error |-> "No authorization header"]
  ELSE IF ~Has(headers.authorization, "token")
  THEN [status |-> 401, error |-> "No token provided"]
  ELSE IF ~JwtVerify(headers.authorization.token)
  THEN [status |-> 401, error |-> "Invalid token"]
  ELSE [user |-> headers.authorization.token.payload]

\* A slip the admin middleware could make: the role of the token not checked.
AdminAuthMiddlewareWithoutRole(headers) == AuthMiddleware(headers)

\* adminAuthMiddleware: as authMiddleware, and decoded.role must be 'admin'.
AdminAuthMiddleware(headers) ==
  IF ~Has(headers, "authorization")
  THEN [status |-> 401, error |-> "No authorization header"]
  ELSE IF ~Has(headers.authorization, "token")
  THEN [status |-> 401, error |-> "No token provided"]
  ELSE IF ~JwtVerify(headers.authorization.token)
  THEN [status |-> 401, error |-> "Invalid token"]
  ELSE IF ~(Has(headers.authorization.token.payload, "role")
            /\ headers.authorization.token.payload.role = "admin")
  THEN [status |-> 403, error |-> "Admin access required"]
  ELSE [user |-> headers.authorization.token.payload]

\* authenticateToken of auth.routes.js: the only middleware that reads
\* tokenBlacklist.
AuthenticateToken(headers) ==
  IF ~(Has(headers, "authorization") /\ Has(headers.authorization, "token"))
  THEN [status |-> 401, error |-> "Access token required"]
  ELSE IF headers.authorization.token \in tokenBlacklist
  THEN [status |-> 401, error |-> "Token has been invalidated"]
  ELSE IF ~JwtVerify(headers.authorization.token)
  THEN [status |-> 403, error |-> "Invalid token"]
  ELSE [user |-> headers.authorization.token.payload]

\* req.user.id; the admin token has no id, and an undefined value matches no
\* row and is sent as no value.
ReqUserId(user) == IF Has(user, "id") THEN user.id ELSE "undefined"

\* POST /api/auth/logout, behind authenticateToken.  The timer that takes the
\* token off the blacklist runs when the token expires.
LogoutRoute(headers) ==
  /\ req' = [route |-> "logout", headers |-> headers]
  /\ LET a == AuthenticateToken(headers)
     IN IF Has(a, "user")
        THEN /\ tokenBlacklist' = tokenBlacklist \cup {headers.authorization.token}
             /\ res' = Respond("logout", 200, [message |-> "Logged out successfully"])
        ELSE /\ res' = Respond("logout", a.status, ErrorBody(a.error))
             /\ UNCHANGED tokenBlacklist
  /\ UNCHANGED <<menu_items, orders, order_items, proc, hist, adminTokenBlacklist, now, otpStore, users>>

\* POST /admin/api/auth/logout, behind authenticateAdminToken, whose body is
\* next() alone.  Without an authorization header the split throws (500);
\* `Bearer` alone puts undefined on the blacklist, which no request carries.
AdminLogoutRoute(headers) ==
  /\ req' = [route |-> "adminLogout", headers |-> headers]
  /\ IF ~Has(headers, "authorization")
     THEN /\ res' = Respond("adminLogout", 500, ErrorBody("Internal server error"))
          /\ UNCHANGED adminTokenBlacklist
     ELSE /\ adminTokenBlacklist' = adminTokenBlacklist \cup
               (IF Has(headers.authorization, "token") THEN {headers.authorization.token} ELSE {})
          /\ res' = Respond("adminLogout", 200, [message |-> "Logged out successfully"])
  /\ UNCHANGED <<menu_items, orders, order_items, proc, hist, tokenBlacklist, now, otpStore, users>>

\* POST /api/orders: authMiddleware, then the handler.
CreateOrderRoute(p, headers, b) ==
  /\ req' = [route |-> "createOrder", headers |-> headers]
  /\ LET a == AuthMiddleware(headers)
     IN IF Has(a, "user")
        THEN CreateOrderBegin(p, ReqUserId(a.user), b)
        ELSE /\ res' = Respond("createOrder", a.status, ErrorBody(a.error))
             /\ UNCHANGED <<menu_items, orders, order_items, proc, hist>>
  /\ UNCHANGED <<tokenBlacklist, adminTokenBlacklist, now, otpStore, users>>

\* ------------------------------ POST /api/auth/send-otp and /verify-otp
\* The phone the OTP requests are about; the codes Math.random() draws and a
\* code it has not drawn; the lifetime of a stored code, in minutes.
OtpPhones == {"p1"}

Otps == {"111111", "222222"}

OtpLifetime == 5

\* uuid_generate_v4() for the row of a new user.
NewUserId(phone) == IF phone = "p1" THEN "u1" ELSE "u2"

OtpFrame == UNCHANGED <<menu_items, orders, order_items, tokenBlacklist, adminTokenBlacklist, now>>

\* send-otp up to its first await: the code is drawn before the user lookup.
SendOtpBegin(p, phone, otp) ==
  /\ proc[p].pc = "idle"
  /\ proc' = [proc EXCEPT ![p] = [pc |-> "getUser", route |-> "sendOtp", phone |-> phone, otp |-> otp]]
  /\ res' = NoResponse
  /\ req' = [route |-> "sendOtp", phone |-> phone]
  /\ UNCHANGED <<otpStore, users, hist>>
  /\ OtpFrame

\* A slip verify-otp could make: the code left in the store once it passed.
VerifyOtpBeginKeepingOtp(p, phone, otp) ==
  /\ proc[p].pc = "idle"
  /\ req' = [route |-> "verifyOtp", phone |-> phone, otp |-> otp]
  /\ IF \/ phone \notin DOMAIN otpStore
        \/ otpStore[phone].otp # otp
        \/ now > otpStore[phone].expiresAt
     THEN /\ res' = Respond("verifyOtp", 400, ErrorBody("Invalid or expired OTP"))
          /\ UNCHANGED <<proc, otpStore, hist>>
     ELSE /\ proc' = [proc EXCEPT ![p] = [pc |-> "getUser", route |-> "verifyOtp", phone |-> phone, otp |-> otp]]
          /\ hist' = [hist EXCEPT ![phone].used = TRUE]
          /\ res' = NoResponse
          /\ UNCHANGED otpStore
  /\ UNCHANGED users
  /\ OtpFrame

\* verify-otp up to its first await: the stored code is compared, its expiry
\* checked against Date.now(), and the entry deleted, in one synchronous run.
VerifyOtpBegin(p, phone, otp) ==
  /\ proc[p].pc = "idle"
  /\ req' = [route |-> "verifyOtp", phone |-> phone, otp |-> otp]
  /\ IF \/ phone \notin DOMAIN otpStore
        \/ otpStore[phone].otp # otp
        \/ now > otpStore[phone].expiresAt
     THEN /\ res' = Respond("verifyOtp", 400, ErrorBody("Invalid or expired OTP"))
          /\ UNCHANGED <<proc, otpStore, hist>>
     ELSE /\ otpStore' = [ph \in DOMAIN otpStore \ {phone} |-> otpStore[ph]]
          /\ proc' = [proc EXCEPT ![p] = [pc |-> "getUser", route |-> "verifyOtp", phone |-> phone, otp |-> otp]]
          /\ hist' = [hist EXCEPT ![phone].used = TRUE]
          /\ res' = NoResponse
  /\ UNCHANGED users
  /\ OtpFrame

\* What follows "get or create user" in either handler, run synchronously
\* with the step that obtained the user: send-otp signs the token, sets the
\* store entry and responds with the code; verify-otp signs and responds.
OtpAnswer(p, user_id) ==
  LET l == proc[p]
  IN /\ proc' = [proc EXCEPT ![p] = Idle]
     /\ IF l.route = "sendOtp"
        THEN /\ otpStore' = (l.phone :> [otp |-> l.otp, expiresAt |-> now + OtpLifetime]) @@ otpStore
             /\ hist' = (l.phone :> [issued |-> l.otp, issuedAt |-> now, used |-> FALSE]) @@ hist
             /\ res' = Respond("sendOtp", 200,
                               [User_Token |-> UserToken(user_id), otp |-> l.otp, phone |-> l.phone])
        ELSE /\ res' = Respond("verifyOtp", 200,
                               [token |-> UserToken(user_id), phone |-> l.phone])
             /\ UNCHANGED <<otpStore, hist>>

\* The catch block of either handler: 400 with the message of the error.
OtpFails(p, message) ==
  /\ proc' = [proc EXCEPT ![p] = Idle]
  /\ res' = Respond(proc[p].route, 400, ErrorBody(message))
  /\ UNCHANGED <<otpStore, hist>>

\* await getUserByPhone(phone): the row, or null when there is none.
GetUserByPhone(p, dbFails) ==
  /\ proc[p].pc = "getUser"
  /\ LET l == proc[p]
     IN IF dbFails THEN OtpFails(p, "fetch failed")
        ELSE IF l.phone \in DOMAIN users THEN OtpAnswer(p, users[l.phone])
        ELSE /\ proc' = [proc EXCEPT ![p].pc = "checkUser"]
             /\ res' = NoResponse
             /\ UNCHANGED <<otpStore, hist>>
  /\ req' = NoRequest
  /\ UNCHANGED users
  /\ OtpFrame

\* createUser, its select: the existing row is returned if there is one.
CreateUserSelect(p, dbFails) ==
  /\ proc[p].pc = "checkUser"
  /\ LET l == proc[p]
     IN IF dbFails THEN OtpFails(p, "fetch failed")
        ELSE IF l.phone \in DOMAIN users THEN OtpAnswer(p, users[l.phone])
        ELSE /\ proc' = [proc EXCEPT ![p].pc = "insertUser"]
             /\ res' = NoResponse
             /\ UNCHANGED <<otpStore, hist>>
  /\ req' = NoRequest
  /\ UNCHANGED users
  /\ OtpFrame

\* createUser, its insert: phone is UNIQUE, so a second insert is refused.
CreateUserInsert(p, dbFails) ==
  /\ proc[p].pc = "insertUser"
  /\ LET l == proc[p]
     IN IF dbFails \/ l.phone \in DOMAIN users
        THEN /\ OtpFails(p, "Failed to create user")
             /\ UNCHANGED users
        ELSE /\ users' = (l.phone :> NewUserId(l.phone)) @@ users
             /\ OtpAnswer(p, NewUserId(l.phone))
  /\ req' = NoRequest
  /\ OtpFrame

\* GET /api/orders: authMiddleware, then the handler.
ListOrdersRoute(headers, dbFails) ==
  /\ req' = [route |-> "listOrders", headers |-> headers]
  /\ LET a == AuthMiddleware(headers)
     IN IF Has(a, "user")
        THEN ListOrders(ReqUserId(a.user), dbFails)
        ELSE /\ res' = Respond("listOrders", a.status, ErrorBody(a.error))
             /\ UNCHANGED <<menu_items, orders, order_items, proc, hist>>
  /\ UNCHANGED <<tokenBlacklist, adminTokenBlacklist, now, otpStore, users>>

\* GET /api/orders/:id: authMiddleware, then the handler.
GetOrderRoute(headers, id, dbFails) ==
  /\ req' = [route |-> "getOrder", headers |-> headers, id |-> id]
  /\ LET a == AuthMiddleware(headers)
     IN IF Has(a, "user")
        THEN GetOrder(ReqUserId(a.user), id, dbFails)
        ELSE /\ res' = Respond("getOrder", a.status, ErrorBody(a.error))
             /\ UNCHANGED <<menu_items, orders, order_items, proc, hist>>
  /\ UNCHANGED <<tokenBlacklist, adminTokenBlacklist, now, otpStore, users>>

\* PUT /api/orders/:id/cancel: authMiddleware, then the handler.
CancelOrderRoute(p, headers, id) ==
  /\ req' = [route |-> "cancelOrder", headers |-> headers]
  /\ LET a == AuthMiddleware(headers)
     IN IF Has(a, "user")
        THEN CancelOrderBegin(p, ReqUserId(a.user), id)
        ELSE /\ res' = Respond("cancelOrder", a.status, ErrorBody(a.error))
             /\ UNCHANGED <<menu_items, orders, order_items, proc, hist>>
  /\ UNCHANGED <<tokenBlacklist, adminTokenBlacklist, now, otpStore, users>>

\* PUT /admin/api/orders/:id/status: adminAuthMiddleware, then the handler.
AdvanceOrderStatusRoute(headers, id, status, dbFails) ==
  /\ req' = [route |-> "advanceOrderStatus", headers |-> headers]
  /\ LET a == AdminAuthMiddleware(headers)
     IN IF Has(a, "user")
        THEN AdvanceOrderStatus(id, status, dbFails)
        ELSE /\ res' = Respond("advanceOrderStatus", a.status, ErrorBody(a.error))
             /\ UNCHANGED <<menu_items, orders, order_items, proc, hist>>
  /\ UNCHANGED <<tokenBlacklist, adminTokenBlacklist, now, otpStore, users>>

\* ------------------------------------------------------- specifications
\* The order builder: one createOrder request at a time, against the menu
\* update and the customer reads.
Next ==
  \/ \E u \in Users, b \in Bodies : "o1" \notin DOMAIN orders /\ CreateOrderBegin("r1", u, b) /\ Continues
  \/ \E dbFails \in BOOLEAN : CreateOrderLookup("r1", dbFails) /\ Continues
  \/ \E dbFails \in BOOLEAN : CreateOrderInsert("r1", "o1", dbFails) /\ Continues
  \/ \E dbFails \in BOOLEAN : CreateOrderInsertItems("r1", dbFails) /\ Continues
  \/ \E m \in MenuIds, body \in MenuBodies, dbFails \in BOOLEAN : UpdateMenuItem(m, body, dbFails) /\ Continues
  \/ \E u \in Users, dbFails \in BOOLEAN : ListOrders(u, dbFails) /\ Continues
  \/ \E u \in Users, id \in OrderIds, dbFails \in BOOLEAN : GetOrder(u, id, dbFails) /\ Continues

Spec == Init /\ [][Next]_vars

\* The status machine: the admin status update and the customer cancel
\* running against each other on orders that createOrder has completed.
StatusInputs == validStatuses \cup {"refunded"}

\* The tables after createOrder has completed a plain order for each owner.
CreatedOrders(owner) ==
  [id \in DOMAIN owner |->
     OrderRow([user |-> owner[id], body |-> PlainBody,
               total_amount |-> LineAmount(1, PlainLine.quantity)])]

InitStatus ==
  /\ menu_items = [m \in {"m1"} |-> [price |-> 1]]
  /\ \E owner \in [OrderIds -> Users] :
       /\ orders = CreatedOrders(owner)
       /\ order_items = OrderItemRows("o1", PlainBody.items) \o OrderItemRows("o2", PlainBody.items)
  /\ proc = [p \in Procs |-> Idle]
  /\ res = NoResponse
  /\ hist = [id \in OrderIds |->
               [resolved |-> <<[menu_item_id |-> "m1", quantity |-> 1, price |-> 1]>>,
                valid |-> TRUE, outcome |-> "created"]]
  /\ tokenBlacklist = {} /\ adminTokenBlacklist = {} /\ req = NoRequest
  /\ now = 0 /\ otpStore = <<>> /\ users = RegisteredUsers

NextStatus ==
  \/ \E id \in OrderIds \cup {"o9"}, status \in StatusInputs, dbFails \in BOOLEAN :
       AdvanceOrderStatus(id, status, dbFails) /\ Continues
  \/ \E p \in Procs, u \in Users, id \in OrderIds \cup {"o9"} : CancelOrderBegin(p, u, id) /\ Continues
  \/ \E p \in Procs, dbFails \in BOOLEAN : CancelOrderSelect(p, dbFails) /\ Continues
  \/ \E p \in Procs, dbFails \in BOOLEAN : CancelOrderUpdate(p, dbFails) /\ Continues

SpecStatus == InitStatus /\ [][NextStatus]_vars

\* The status machine under a clock.  The rows carry the timestamps the
\* table's defaults gave them when they were inserted (created_at and
\* updated_at TIMESTAMP WITH TIME ZONE DEFAULT CURRENT_TIMESTAMP); the schema
\* has no trigger on orders, so a later UPDATE writes the columns it names.
MaxNow == 6

Timestamped(row, t) == row @@ [created_at |-> t, updated_at |-> t]

\* Time passes between two steps.
Tick ==
  /\ now < MaxNow
  /\ now' = now + 1
  /\ res' = NoResponse /\ req' = NoRequest
  /\ UNCHANGED <<menu_items, orders, order_items, proc, hist,
                 tokenBlacklist, adminTokenBlacklist, otpStore, users>>

InitClock ==
  /\ menu_items = [m \in {"m1"} |-> [price |-> 1]]
  /\ orders = [id \in OrderIds |-> Timestamped(CreatedOrders([o \in OrderIds |-> "u1"])[id], 0)]
  /\ order_items = OrderItemRows("o1", PlainBody.items) \o OrderItemRows("o2", PlainBody.items)
  /\ proc = [p \in Procs |-> Idle]
  /\ res = NoResponse
  /\ hist = [id \in OrderIds |->
               [resolved |-> <<[menu_item_id |-> "m1", quantity |-> 1, price |-> 1]>>,
                valid |-> TRUE, outcome |-> "created"]]
  /\ tokenBlacklist = {} /\ adminTokenBlacklist = {} /\ req = NoRequest
  /\ now = 0 /\ otpStore = <<>> /\ users = RegisteredUsers

NextClock ==
  \/ \E id \in OrderIds \cup {"o9"}, status \in StatusInputs, dbFails \in BOOLEAN :
       AdvanceOrderStatus(id, status, dbFails) /\ Continues
  \/ \E id \in OrderIds : CancelOrderBegin("r1", "u1", id) /\ Continues
  \/ \E dbFails \in BOOLEAN : CancelOrderSelect("r1", dbFails) /\ Continues
  \/ \E dbFails \in BOOLEAN : CancelOrderUpdate("r1", dbFails) /\ Continues
  \/ Tick

SpecClock == InitClock /\ [][NextClock]_vars

\* Overlapping requests on the status of one order: two admin calls, each cut
\* at its await, against the customer cancel.  The operator asks only for the
\* moves the transition table allows from the status the order has when the
\* request is sent, or addresses an order that does not exist.
\* The transition table of the status machine.
AllowedTo(status) ==
  CASE status = "pending" -> {"confirmed", "cancelled"}
    [] status = "confirmed" -> {"preparing", "cancelled"}
    [] status = "preparing" -> {"ready"}
    [] status = "ready" -> {"delivered"}
    [] OTHER -> {}

InitRace ==
  /\ menu_items = [m \in {"m1"} |-> [price |-> 1]]
  /\ \E owner \in [OrderIds -> Users] :
       /\ orders = CreatedOrders(owner)
       /\ order_items = OrderItemRows("o1", PlainBody.items) \o OrderItemRows("o2", PlainBody.items)
  /\ proc = [p \in Procs \cup Admins |-> Idle]
  /\ res = NoResponse
  /\ hist = [id \in OrderIds |->
               [resolved |-> <<[menu_item_id |-> "m1", quantity |-> 1, price |-> 1]>>,
                valid |-> TRUE, outcome |-> "created"]]
  /\ tokenBlacklist = {} /\ adminTokenBlacklist = {} /\ req = NoRequest
  /\ now = 0 /\ otpStore = <<>> /\ users = RegisteredUsers

NextRace ==
  \/ \E a \in Admins, id \in OrderIds \cup {"o9"}, status \in validStatuses :
       /\ id \in DOMAIN orders => status \in AllowedTo(orders[id].status)
       /\ AdvanceOrderBegin(a, id, status) /\ Continues
  \/ \E a \in Admins, dbFails \in BOOLEAN : AdvanceOrderUpdate(a, dbFails) /\ Continues
  \/ \E u \in Users, id \in OrderIds \cup {"o9"} : CancelOrderBegin("r1", u, id) /\ Continues
  \/ \E dbFails \in BOOLEAN : CancelOrderSelect("r1", dbFails) /\ Continues
  \/ \E dbFails \in BOOLEAN : CancelOrderUpdate("r1", dbFails) /\ Continues

SpecRace == InitRace /\ [][NextRace]_vars

\* Requests as they arrive, tokens and all: login state, the order routes
\* behind their middleware, and the two logouts.  One customer request is in
\* flight at a time and there is one order to make.
OverridingBody ==
  [store_id |-> "s1", items |-> <<PlainLine>>, delivery_address |-> "addr",
   user_id |-> "u2", notes |-> "for u2"]

AuthBodies == {PlainBody, OverridingBody}

\* The operator's moves in this specification, and a status that is none.
AuthStatusInputs == {"confirmed", "delivered", "refunded"}

InitAuth == Init /\ menu_items["m1"].price = 1

\* Storage does not fail here; the admin logout is sent with the admin's
\* token or with no authorization header.
NextAuth ==
  \/ \E headers \in Headers : LogoutRoute(headers)
  \/ \E headers \in {h \in Headers : Has(h, "authorization") => h.authorization = [scheme |-> "Bearer", token |-> AdminToken]} :
       AdminLogoutRoute(headers)
  \/ \E headers \in Headers, b \in AuthBodies : CreateOrderRoute("r1", headers, b)
  \/ CreateOrderLookup("r1", FALSE) /\ Continues
  \/ CreateOrderInsert("r1", "o1", FALSE) /\ Continues
  \/ CreateOrderInsertItems("r1", FALSE) /\ Continues
  \/ \E headers \in Headers, id \in {"o1", "o9"} : CancelOrderRoute("r1", headers, id)
  \/ CancelOrderSelect("r1", FALSE) /\ Continues
  \/ CancelOrderUpdate("r1", FALSE) /\ Continues
  \/ \E headers \in Headers, id \in {"o1", "o9"}, status \in AuthStatusInputs :
       AdvanceOrderStatusRoute(headers, id, status, FALSE)

SpecAuth == InitAuth /\ [][NextAuth]_vars

\* The order builder over a catalog whose rows carry store_id and
\* is_available (BOOLEAN DEFAULT true): both items are on the menu, m1 of
\* store s1 and m2 of store s2, each available or not, and the menu update
\* changes prices only, so that an item's store and availability when an
\* order resolves it are its store and availability in every state.
StoreOfItem == [m \in MenuIds |-> IF m = "m1" THEN "s1" ELSE "s2"]

\* A well-formed request that names a store of which there is no row.
UnknownStoreBody == [store_id |-> "s9", items |-> <<PlainLine>>, delivery_address |-> "addr"]

InitAvail ==
  /\ \E available \in [MenuIds -> BOOLEAN] :
       menu_items = [m \in MenuIds |->
                       [price |-> 1, store_id |-> StoreOfItem[m], is_available |-> available[m]]]
  /\ orders = <<>>
  /\ order_items = <<>>
  /\ proc = [p \in Procs |-> Idle]
  /\ res = NoResponse
  /\ hist = <<>>
  /\ tokenBlacklist = {} /\ adminTokenBlacklist = {} /\ req = NoRequest
  /\ now = 0 /\ otpStore = <<>> /\ users = RegisteredUsers

NextAvail ==
  \/ \E u \in Users, b \in Bodies \cup {UnknownStoreBody} :
       "o1" \notin DOMAIN orders /\ CreateOrderBegin("r1", u, b) /\ Continues
  \/ \E dbFails \in BOOLEAN : CreateOrderLookup("r1", dbFails) /\ Continues
  \/ \E dbFails \in BOOLEAN : CreateOrderInsert("r1", "o1", dbFails) /\ Continues
  \/ \E dbFails \in BOOLEAN : CreateOrderInsertItems("r1", dbFails) /\ Continues
  \/ \E m \in MenuIds, body \in MenuBodies, dbFails \in BOOLEAN : UpdateMenuItem(m, body, dbFails) /\ Continues

SpecAvail == InitAvail /\ [][NextAvail]_vars

\* The customer reads: both customers are logged in and read, with their own
\* token, a forged one or none, while the operator moves the orders on.
ReadHeaders ==
  {[authorization |-> [scheme |-> "Bearer", token |-> t]] :
     t \in {UserToken(u) : u \in Users} \cup {ForgedToken}}
  \cup {[host |-> "jetak"]}

NextRead ==
  \/ \E headers \in ReadHeaders, dbFails \in BOOLEAN : ListOrdersRoute(headers, dbFails)
  \/ \E headers \in ReadHeaders, id \in OrderIds \cup {"o9"}, dbFails \in BOOLEAN :
       GetOrderRoute(headers, id, dbFails)
  \/ \E id \in OrderIds, status \in validStatuses : AdvanceOrderStatus(id, status, FALSE) /\ Continues

SpecRead == InitStatus /\ [][NextRead]_vars

\* The OTP login: two requests in flight for one phone that has no user yet,
\* each a send-otp or a verify-otp, under a clock that runs past the lifetime
\* of a code.  A verify-otp carries a code that was drawn or one that was not.
InitOtp ==
  /\ menu_items = <<>>
  /\ orders = <<>>
  /\ order_items = <<>>
  /\ proc = [p \in Procs |-> Idle]
  /\ res = NoResponse
  /\ hist = <<>>
  /\ tokenBlacklist = {} /\ adminTokenBlacklist = {} /\ req = NoRequest
  /\ now = 0 /\ otpStore = <<>> /\ users = <<>>

NextOtp ==
  \/ \E p \in Procs, phone \in OtpPhones, otp \in Otps : SendOtpBegin(p, phone, otp)
  \/ \E p \in Procs, phone \in OtpPhones, otp \in Otps \cup {"000000"} : VerifyOtpBegin(p, phone, otp)
  \/ \E p \in Procs, dbFails \in BOOLEAN : GetUserByPhone(p, dbFails)
  \/ \E p \in Procs, dbFails \in BOOLEAN : CreateUserSelect(p, dbFails)
  \/ \E p \in Procs, dbFails \in BOOLEAN : CreateUserInsert(p, dbFails)
  \/ Tick

SpecOtp == InitOtp /\ [][NextOtp]_vars

\* Two customers at once: each slot is one customer's request in flight, a
\* createOrder or a cancel, against the operator's status update and the
\* catalog's update and delete.  Each customer sends their own cart.
UserOf == [p \in Procs |-> IF p = "r1" THEN "u1" ELSE "u2"]

BodyOf ==
  [p \in Procs |->
     IF p = "r1"
     THEN [store_id |-> "s1", items |-> <<PlainLine>>, delivery_address |-> "addr",
           delivery_latitude |-> 10, delivery_longitude |-> 20, notes |-> "ring"]
     ELSE [store_id |-> "s1", items |-> <<[menu_item_id |-> "m1", quantity |-> 2, price |-> 1]>>,
           delivery_address |-> "addr2"]]

PairStatusInputs == {"confirmed", "delivered"}

InitPair == Init /\ menu_items["m1"].price = 1

NextPair ==
  \/ \E p \in Procs : CreateOrderBegin(p, UserOf[p], BodyOf[p]) /\ Continues
  \/ \E p \in Procs, dbFails \in BOOLEAN : CreateOrderLookup(p, dbFails) /\ Continues
  \/ \E p \in Procs, id \in OrderIds, dbFails \in BOOLEAN : CreateOrderInsert(p, id, dbFails) /\ Continues
  \/ \E p \in Procs, dbFails \in BOOLEAN : CreateOrderInsertItems(p, dbFails) /\ Continues
  \/ \E p \in Procs, id \in OrderIds : CancelOrderBegin(p, UserOf[p], id) /\ Continues
  \/ \E p \in Procs : CancelOrderSelect(p, FALSE) /\ Continues
  \/ \E p \in Procs : CancelOrderUpdate(p, FALSE) /\ Continues
  \/ \E id \in OrderIds, status \in PairStatusInputs : AdvanceOrderStatus(id, status, FALSE) /\ Continues
  \/ \E body \in MenuBodies : UpdateMenuItem("m1", body, FALSE) /\ Continues
  \/ DeleteMenuItem("m1", FALSE) /\ Continues

SpecPair == InitPair /\ [][NextPair]_vars

\* ------------------------------------------------------------- claims
\* Sum of quantity * price over a sequence of rows.
LinesTotal(rows) == SumSeq([k \in 1..Len(rows) |-> rows[k].quantity * rows[k].price])

\* C1: when the line-items insert of a createOrder call (of a well-formed
\* request) has failed, the header that call wrote is gone from the orders
\* table.
C1_FailedCreateLeavesNoHeader ==
  \A id \in DOMAIN hist :
     (hist[id].valid /\ hist[id].outcome = "failed") => id \notin DOMAIN orders

\* C2: every order (of a well-formed request) that a customer read returns
\* carries all the line items of its cart: no reader sees a header whose line
\* items are not written.
C2_ReadersSeeWholeOrders ==
  (res.op \in {"listOrders", "getOrder"} /\ res.status = 200) =>
     \A o \in res.body.data :
        hist[o.id].valid => Len(o.order_items) = Len(hist[o.id].resolved)

\* C3: for every order (of a well-formed request) whose creation completed,
\* total_amount is the sum of quantity * stored unit price over the order's
\* persisted line items.
C3_TotalMatchesPersistedLines ==
  \A id \in DOMAIN orders :
     (hist[id].valid /\ hist[id].outcome = "created") =>
        orders[id].total_amount = LinesTotal(ItemsOf(id))

\* C4: for every order created from a valid cart, total_amount is the sum over
\* the cart lines of the catalog price resolved in that call times the
\* quantity, in every later state, whatever the catalog prices have become.
C4_TotalIsSumOfResolvedPrices ==
  \A id \in DOMAIN orders :
     hist[id].valid => orders[id].total_amount = LinesTotal(hist[id].resolved)

\* C4 witness: a completed order of a valid two-line cart whose total is the
\* sum over its resolved lines, after the catalog price of one of its items
\* has moved away from the price the call resolved.
C4_Witness ==
  \E id \in DOMAIN orders :
     /\ hist[id].valid /\ hist[id].outcome = "created"
     /\ Len(hist[id].resolved) >= 2
     /\ orders[id].total_amount = LinesTotal(hist[id].resolved)
     /\ \E k \in 1..Len(hist[id].resolved) :
          hist[id].resolved[k].price # menu_items[hist[id].resolved[k].menu_item_id].price
     /\ orders[id].total_amount #
          SumSeq([k \in 1..Len(hist[id].resolved) |->
                    hist[id].resolved[k].quantity * menu_items[hist[id].resolved[k].menu_item_id].price])

\* C5: every persisted line item (of a well-formed request) references its
\* order and carries as unit price the catalog price createOrder resolved for
\* that cart line.
C5_LinesCarryResolvedPrice ==
  \A id \in DOMAIN orders :
     hist[id].valid =>
        \A k \in 1..Len(ItemsOf(id)) :
           /\ ItemsOf(id)[k].order_id = id
           /\ ItemsOf(id)[k].price = hist[id].resolved[k].price

\* C6: a step that changes a catalog price leaves every line item and the
\* total_amount of every existing order as they were.
C6_PriceChangeLeavesOrdersAlone ==
  [][menu_items' # menu_items =>
       /\ order_items' = order_items
       /\ \A id \in DOMAIN orders :
            id \in DOMAIN orders' /\ orders'[id].total_amount = orders[id].total_amount]_vars

\* C6 witness: the menu update has just changed the price of an item that a
\* completed order holds a line of, and the line still has its own price.
C6_Witness ==
  /\ res.op = "updateMenuItem" /\ res.status = 200
  /\ \E id \in DOMAIN orders :
       /\ hist[id].outcome = "created"
       /\ \E k \in 1..Len(ItemsOf(id)) :
            /\ ItemsOf(id)[k].menu_item_id = res.body.id
            /\ hist[id].resolved[k].price # res.body.row.price
            /\ ItemsOf(id)[k].price # res.body.row.price

\* C7: a createOrder call whose menu item does not resolve answers NotFound
\* (404) and persists neither a header nor a line item.
C7_UnresolvedItemIsNotFound ==
  [][(res'.op = "createOrder" /\ res'.status # 201 /\ res'.body.error = "PGRST116") =>
       (res'.status = 404 /\ orders' = orders /\ order_items' = order_items)]_vars

\* C8: a createOrder request of invalid shape is rejected and leaves the
\* store unchanged: no order in the store stems from such a request.
C8_InvalidShapeLeavesStoreUnchanged ==
  \A id \in DOMAIN orders : hist[id].valid

\* C9: the admin status update succeeds in moving an order to another status
\* only when the target is in the allowed-to set of the order's current
\* status; otherwise the order keeps its status.
C9_AdvanceFollowsTransitionTable ==
  [][(res'.op = "advanceOrderStatus" /\ orders' # orders) =>
       /\ res'.status = 200
       /\ res'.body.order.status \in AllowedTo(orders[res'.body.id].status)]_vars

\* C10: once an order's status is delivered or cancelled, no step changes it.
C10_TerminalStatusStays ==
  [][\A id \in DOMAIN orders :
       orders[id].status \in {"delivered", "cancelled"} =>
          orders'[id].status = orders[id].status]_vars

\* C11: a cancelOrder call on an existing order of the caller is decided by
\* the status its select finds: pending or confirmed lets the call go on to
\* its write, which (unless storage fails) sets the status to cancelled and
\* answers 200 with the cancelled order; any other status is answered 400
\* "Order cannot be cancelled" and the orders table is left as it was.
C11_CancelDecidedByStatus ==
  [][\A p \in Procs :
       /\ (/\ proc[p].pc = "cancelSelect" /\ proc'[p] # proc[p]
           /\ proc[p].id \in DOMAIN orders
           /\ orders[proc[p].id].user_id = proc[p].user
           /\ ~(res'.op = "cancelOrder" /\ res'.status = 500))
          => /\ orders' = orders
             /\ IF orders[proc[p].id].status \in {"pending", "confirmed"}
                THEN proc'[p].pc = "cancelUpdate" /\ res' = NoResponse
                ELSE /\ proc'[p] = Idle
                     /\ res' = Respond("cancelOrder", 400, ErrorBody("Order cannot be cancelled"))
       /\ (/\ proc[p].pc = "cancelUpdate" /\ proc'[p] # proc[p]
           /\ ~(res'.op = "cancelOrder" /\ res'.status = 500))
          => /\ res'.op = "cancelOrder" /\ res'.status = 200
             /\ res'.body.order.status = "cancelled"
             /\ orders' = [orders EXCEPT ![proc[p].id].status = "cancelled"]]_vars

\* C11 witness: a cancelOrder call has just been answered 200 and its order
\* is cancelled, while the same caller's other order is being prepared (the
\* status from which a cancel is answered 400).
C11_Witness ==
  /\ res.op = "cancelOrder" /\ res.status = 200
  /\ orders[res.body.id].status = "cancelled"
  /\ \E id \in DOMAIN orders :
       /\ id # res.body.id
       /\ orders[id].user_id = orders[res.body.id].user_id
       /\ orders[id].status = "preparing"

\* C12: of two admin status calls on the same order with different targets
\* that were both waiting for the database when the first of them wrote, at
\* most one is answered with success.
C12_OneAdvanceWins ==
  \A a \in Admins, b \in Admins :
     (/\ proc[a].pc = "answered" /\ proc[b].pc = "answered"
      /\ b \in proc[a].overlapped
      /\ proc[a].status # proc[b].status)
     => ~(proc[a].res.status = 200 /\ proc[b].res.status = 200)

\* C13: the write of a cancelOrder call moves an order to cancelled only from
\* pending or confirmed: the status the call validated is still the persisted
\* status when the write is applied.
C13_CancelWritesOnValidatedStatus ==
  [][\A p \in Procs :
       (proc[p].pc = "cancelUpdate" /\ proc'[p] # proc[p] /\ orders' # orders)
       => orders[proc[p].id].status \in {"pending", "confirmed"}]_vars

\* C15: an admin status call or a cancelOrder call on an order id that has no
\* row, when storage has not failed, is answered 404 and leaves the orders
\* table as it was.
C15_MissingOrderIsNotFound ==
  [][\A p \in DOMAIN proc :
       (/\ proc[p].pc \in {"advanceUpdate", "cancelSelect"} /\ proc'[p] # proc[p]
        /\ proc[p].id \notin DOMAIN orders
        /\ IF proc[p].pc = "advanceUpdate" THEN ~proc'[p].storageFailed
           ELSE res'.body.error # "fetch failed")
       => (res'.status = 404 /\ orders' = orders)]_vars

\* C19: failures of different kinds are answered differently, and no failure
\* is answered with success: an admin status call that failed because its
\* order does not exist (not found) and one that failed because the database
\* call failed (storage) never get the same response, and neither gets 200.
C19_FailureKindsAreDistinguishable ==
  /\ \A a \in Admins :
        (proc[a].pc = "answered" /\ (proc[a].storageFailed \/ proc[a].id \notin DOMAIN orders))
        => proc[a].res.status # 200
  /\ \A a \in Admins, b \in Admins :
        (/\ proc[a].pc = "answered" /\ proc[b].pc = "answered"
         /\ proc[a].id \notin DOMAIN orders /\ ~proc[a].storageFailed
         /\ proc[b].storageFailed)
        => proc[a].res # proc[b].res

C16_OwnerIsTokenHolder ==
  [][/\ (req'.route = "createOrder" /\ proc' # proc)
        => /\ Has(req'.headers, "authorization")
           /\ Has(req'.headers.authorization, "token")
           /\ req'.headers.authorization.token.signed
           /\ \A p \in Procs :
                proc'[p] # proc[p] =>
                   IF Has(req'.headers.authorization.token.payload, "id")
                   THEN proc'[p].user = req'.headers.authorization.token.payload.id
                   ELSE proc'[p].user \notin Users
     /\ \A id \in DOMAIN orders' \ DOMAIN orders :
          \E p \in Procs :
             /\ proc[p].pc = "insertOrder" /\ proc'[p] # proc[p]
             /\ orders'[id].user_id = proc[p].user
     /\ \A id \in DOMAIN orders :
          id \in DOMAIN orders' /\ orders'[id].user_id = orders[id].user_id]_vars

\* C16 witness: an order made from the body that names u2 as user_id is
\* persisted with the token holder u1 as its user.
C16_Witness ==
  \E id \in DOMAIN orders :
     /\ Has(orders[id], "notes") /\ orders[id].notes = OverridingBody.notes
     /\ orders[id].user_id = "u1"
     /\ OverridingBody.user_id # "u1"

\* C17: the status of an existing order changes only in a step of the admin
\* status route whose request carries a signed token with the admin role, or,
\* in a step of a customer handler, to cancelled.
C17_AdvanceIsOperatorOnly ==
  [][\A id \in DOMAIN orders :
       orders'[id].status # orders[id].status
       => \/ /\ req'.route = "advanceOrderStatus"
             /\ Has(req'.headers, "authorization")
             /\ Has(req'.headers.authorization, "token")
             /\ req'.headers.authorization.token.signed
             /\ Has(req'.headers.authorization.token.payload, "role")
             /\ req'.headers.authorization.token.payload.role = "admin"
          \/ /\ req'.route # "advanceOrderStatus"
             /\ orders'[id].status = "cancelled"]_vars

\* C17 witness: the admin status route has just refused (403) the signed
\* token of a customer, and the order it named still has the status it had
\* at creation.
C17_Witness ==
  /\ req.route = "advanceOrderStatus"
  /\ req.headers = [authorization |-> [scheme |-> "Bearer", token |-> UserToken("u1")]]
  /\ res.op = "advanceOrderStatus" /\ res.status = 403
  /\ "o1" \in DOMAIN orders /\ orders["o1"].status = "pending"

\* C18: a request to a route behind a token check that carries a token which
\* a logout has put on a blacklist is rejected (401 or 403).
C18_LoggedOutTokenIsRejected ==
  [][(/\ req'.route \in {"logout", "createOrder", "cancelOrder", "advanceOrderStatus"}
      /\ Has(req'.headers, "authorization")
      /\ Has(req'.headers.authorization, "token")
      /\ req'.headers.authorization.token \in tokenBlacklist \cup adminTokenBlacklist)
     => (res'.op # "none" /\ res'.status \in {401, 403})]_vars

C21_LinesBelongToTheOrdersStore ==
  \A id \in DOMAIN orders :
     (hist[id].valid /\ hist[id].outcome = "created") =>
        \A k \in 1..Len(ItemsOf(id)) :
           menu_items[ItemsOf(id)[k].menu_item_id].store_id = orders[id].store_id

\* C22: a createOrder call of a well-formed request whose store_id has no row
\* in stores is answered NotFound (404): when it comes to its header insert
\* and storage has not failed, the answer is 404 and nothing is written.
C22_UnknownStoreIsNotFound ==
  [][\A p \in Procs :
       (/\ proc[p].pc = "insertOrder" /\ proc'[p] # proc[p]
        /\ ValidShape(proc[p].body)
        /\ proc[p].body.store_id \notin StoreIds
        /\ res'.body.error # "fetch failed")
       => (res'.status = 404 /\ orders' = orders /\ order_items' = order_items)]_vars

\* C23: a successful advanceOrderStatus call leaves the order with a valid
\* status and with an updated_at strictly later than the one it had.
C23_AdvanceRefreshesUpdatedAt ==
  [][\A id \in DOMAIN orders :
       (res'.op = "advanceOrderStatus" /\ res'.status = 200 /\ res'.body.id = id)
       => (/\ orders'[id].status \in validStatuses
           /\ orders'[id].updated_at > orders[id].updated_at)]_vars

\* C24: every persisted line item has an integer quantity of at least 1.
C24_PersistedQuantityIsPositive ==
  \A k \in 1..Len(order_items) :
     /\ Has(order_items[k], "quantity")
     /\ order_items[k].quantity \in Int
     /\ order_items[k].quantity >= 1

\* C25: once an order's row exists, no step (a cancel, a status update, the
\* creation of another order, a catalog update or delete) removes it or
\* changes any of its columns other than status.
C25_OnlyStatusChanges ==
  [][\A id \in DOMAIN orders :
       /\ id \in DOMAIN orders'
       /\ DOMAIN orders'[id] = DOMAIN orders[id]
       /\ \A f \in DOMAIN orders[id] \ {"status"} : orders'[id][f] = orders[id][f]]_vars

\* An order with coordinates and notes that was created and then cancelled,
\* beside a second order, after the catalog price has changed.
C25_Witness ==
  /\ Cardinality(DOMAIN orders) = 2
  /\ "m1" \in DOMAIN menu_items /\ menu_items["m1"].price = 2
  /\ \E id \in DOMAIN orders :
       /\ hist[id].outcome = "created"
       /\ orders[id].status = "cancelled"
       /\ Has(orders[id], "notes") /\ orders[id].notes = "ring"

\* C26: line items are written once and stay: a step leaves every existing
\* row of order_items in place and unchanged, the rows it adds all belong to
\* one order, whose creation is completing and which had no line item, and
\* every row references an order that exists.
C26_LineItemsAreWrittenOnce ==
  [][/\ Len(order_items') >= Len(order_items)
     /\ \A k \in 1..Len(order_items) : order_items'[k] = order_items[k]
     /\ \A k \in 1..Len(order_items') : order_items'[k].order_id \in DOMAIN orders'
     /\ Len(order_items') > Len(order_items) =>
          \E id \in DOMAIN orders :
             /\ hist[id].outcome = "pending"
             /\ hist'[id].outcome = "created"
             /\ Len(ItemsOf(id)) = 0
             /\ \A k \in (Len(order_items) + 1)..Len(order_items') :
                   order_items'[k].order_id = id]_vars

\* Both orders have their line items; one has since been cancelled by its
\* customer and the other delivered by the operator.
C26_Witness ==
  /\ Len(order_items) = 2
  /\ order_items[1].order_id # order_items[2].order_id
  /\ \E id \in DOMAIN orders : orders[id].status = "cancelled"
  /\ \E id \in DOMAIN orders : orders[id].status = "delivered"

\* C27: two createOrder calls that overlap do not reach into each other: each
\* header carries its own caller and the total of the prices its own call
\* resolved, the two calls write different orders, and each completed order
\* has the lines (item and quantity) of its own cart and no others.
C27_ConcurrentCreatesAreIndependent ==
  /\ \A id \in DOMAIN orders : orders[id].total_amount = LinesTotal(hist[id].resolved)
  /\ \A p \in Procs :
       proc[p].pc = "insertItems" =>
          /\ orders[proc[p].order].user_id = UserOf[p]
          /\ orders[proc[p].order].delivery_address = BodyOf[p].delivery_address
          /\ proc[p].items = BodyOf[p].items
          /\ \A q \in Procs \ {p} : proc[q].pc = "insertItems" => proc[q].order # proc[p].order
  /\ \A id \in DOMAIN orders :
       hist[id].outcome = "created" =>
          \E p \in Procs :
             /\ orders[id].user_id = UserOf[p]
             /\ Len(ItemsOf(id)) = Len(BodyOf[p].items)
             /\ \A k \in 1..Len(ItemsOf(id)) :
                   /\ ItemsOf(id)[k].menu_item_id = BodyOf[p].items[k].menu_item_id
                   /\ ItemsOf(id)[k].quantity = BodyOf[p].items[k].quantity

\* Both calls have written their headers and neither its line items yet.
C27_Witness ==
  /\ proc["r1"].pc = "insertItems" /\ proc["r2"].pc = "insertItems"
  /\ proc["r1"].order # proc["r2"].order

\* C28: a customer cancels only their own orders: a step of a cancelOrder call
\* by user U changes no order but the one it names, and that one only if its
\* user_id is U; the select of a call on another user's order ends the call
\* with an error and leaves the orders as they were.
C28_CancelOnlyOwnOrders ==
  [][\A p \in Procs :
       (proc[p].pc \in {"cancelSelect", "cancelUpdate"} /\ proc'[p] # proc[p]) =>
          /\ \A id \in DOMAIN orders :
                orders'[id] # orders[id] =>
                   (id = proc[p].id /\ orders[id].user_id = proc[p].user)
          /\ (/\ proc[p].pc = "cancelSelect"
              /\ proc[p].id \in DOMAIN orders
              /\ orders[proc[p].id].user_id # proc[p].user)
             => (proc'[p].pc = "idle" /\ res'.status >= 400 /\ orders' = orders)]_vars

\* One customer's cancel of their own order has just succeeded while a call
\* of another customer on an order that is not theirs is in flight.
C28_Witness ==
  /\ res.op = "cancelOrder" /\ res.status = 200
  /\ \E p \in Procs :
       /\ proc[p].pc = "cancelSelect"
       /\ proc[p].id \in DOMAIN orders
       /\ orders[proc[p].id].user_id # proc[p].user
       /\ orders[proc[p].id].status \in {"pending", "confirmed"}

\* The store as it would be with no orders but those of user u.
OrdersOnlyOf(u) == [id \in {k \in DOMAIN orders : orders[k].user_id = u} |-> orders[id]]

ItemsOnlyOf(u) == SelectSeq(order_items, LAMBDA r : r.order_id \in DOMAIN OrdersOnlyOf(u))

\* Every order of such a store, as the reads return orders.
AllOf(ords, items) ==
  {[id |-> id, order |-> ords[id],
    order_items |-> SelectSeq(items, LAMBDA r : r.order_id = id)] : id \in DOMAIN ords}

\* C29: what the customer reads answer to user U is what they would answer
\* were U's orders the only orders in the store: the list is all the orders
\* of that store, a get returns the order asked for out of that store, and a
\* get of an order that is not in it (another user's, or none) returns none.
C29_ReadsSeeOnlyOwnOrders ==
  [][(req'.route \in {"listOrders", "getOrder"} /\ res'.status = 200) =>
       LET u == req'.headers.authorization.token.payload.id
           own == AllOf(OrdersOnlyOf(u), ItemsOnlyOf(u))
       IN /\ req'.route = "listOrders" => res'.body.data = own
          /\ req'.route = "getOrder" =>
                res'.body.data = {o \in own : o.id = req'.id}
                /\ req'.id \in DOMAIN OrdersOnlyOf(u)]_vars

\* A customer's get of an order of the other customer has been refused.
C29_Witness ==
  /\ req.route = "getOrder"
  /\ Has(req.headers, "authorization") /\ req.headers.authorization.token.signed
  /\ req.id \in DOMAIN orders
  /\ orders[req.id].user_id # req.headers.authorization.token.payload.id
  /\ res.op = "getOrder" /\ res.status = 500 /\ res.body.error = "PGRST116"

\* C30: an OTP is single-use and latest-wins.  A verify-otp passes its check
\* only with the code that send-otp last issued for the phone, only if that
\* code has not passed a check before and was issued no longer ago than its
\* lifetime, and on passing it removes the stored entry; a send-otp that
\* answers leaves in the store the code it has answered with, whatever was
\* stored before; and nothing but an answering send-otp puts a code in the
\* store.
C30_OtpIsSingleUseAndLatestWins ==
  [][/\ \A p \in Procs :
          (/\ proc[p].pc = "idle" /\ proc'[p].pc = "getUser"
           /\ proc'[p].route = "verifyOtp")
          => LET phone == proc'[p].phone
             IN /\ phone \in DOMAIN hist
                /\ hist[phone].issued = proc'[p].otp
                /\ ~hist[phone].used
                /\ now <= hist[phone].issuedAt + OtpLifetime
                /\ phone \notin DOMAIN otpStore'
     /\ (res'.op = "sendOtp" /\ res'.status = 200)
          => /\ res'.body.phone \in DOMAIN otpStore'
             /\ otpStore'[res'.body.phone].otp = res'.body.otp
             /\ otpStore'[res'.body.phone].expiresAt = now + OtpLifetime
     /\ \A phone \in DOMAIN otpStore' :
          (phone \notin DOMAIN otpStore \/ otpStore'[phone] # otpStore[phone])
          => (res'.op = "sendOtp" /\ res'.status = 200 /\ res'.body.phone = phone)]_vars

\* The code last issued for the phone has passed a check, and a second
\* verify-otp with the same code has just been refused.
C30_Witness ==
  /\ "p1" \in DOMAIN hist /\ hist["p1"].used
  /\ "p1" \notin DOMAIN otpStore
  /\ req.route = "verifyOtp" /\ req.otp = hist["p1"].issued
  /\ res.op = "verifyOtp" /\ res.status = 400 /\ res.body.error = "Invalid or expired OTP"

====
